---- MODULE Spec2Model ----
(***************************************************************************)
(* The .NET TimeSpan codec of timespan/dotnet.py: _args_to_seconds,        *)
(* to_string (the c, g and G format specifiers), from_string and           *)
(* total_seconds.                                                          *)
(*                                                                         *)
(* Representation.                                                         *)
(*  - A Python str is a sequence of one-character strings.                 *)
(*  - A Python float holding seconds is a Num, [w, t]: w whole seconds     *)
(*    (the floor) and t ticks (1e-7 s) above it, 0 <= t < 10^7.  The two   *)
(*    parts are kept apart because the values of the model checker are     *)
(*    32-bit integers.  Seven decimal places are the finest any string of  *)
(*    the grammar and any tick count can express.                          *)
(*  - A datetime.timedelta is its three stored fields, days, seconds and   *)
(*    microseconds, normalised as Python normalises them.                  *)
(*  - A raised exception is the name of its class in the field "raised"    *)
(*    of the call's outcome ("" when the call returned).                   *)
(***************************************************************************)
EXTENDS Integers, Sequences, FiniteSets

VARIABLES
    sep,        \* _NUMBER_DECIMAL_SEPARATOR, read once when the module is imported
    debug,      \* __debug__: FALSE when the interpreter runs with -O
    pc,         \* the function that returned last ("idle" before any call)
    specifier,  \* to_string's format specifier
    args,       \* the argument tuple of to_string or _args_to_seconds
    by_ticks,   \* _args_to_seconds' keyword argument
    ret,        \* the outcome of to_string or _args_to_seconds
    text,       \* the argument of from_string or total_seconds
    delta       \* the outcome of from_string or total_seconds

vars == <<sep, debug, pc, specifier, args, by_ticks, ret, text, delta>>

(***************************************************************************)
(* Bounds of the model.                                                    *)
(***************************************************************************)
MaxDays == 2    \* the days argument ranges over -1 .. MaxDays
MaxLen == 6     \* argument tuples have 0 .. MaxLen elements

(***************************************************************************)
(* Program constants.                                                      *)
(***************************************************************************)
_TICKS_PER_SECOND == 10000000
_FORMAT_SPECIFIERS == {"c", "g", "G"}

MICROS_PER_SECOND == 1000000    \* the resolution of datetime.timedelta
SECONDS_PER_DAY == 86400

(***************************************************************************)
(* Numbers.                                                                *)
(***************************************************************************)
Whole(n) == [w |-> n, t |-> 0]
Micro(n, us) == [w |-> n, t |-> us * 10]

\* -x for a float x
neg(x) ==
    IF x.t = 0 THEN [w |-> -x.w, t |-> 0]
    ELSE [w |-> -x.w - 1, t |-> _TICKS_PER_SECOND - x.t]

\* x < 0 for a float x
negative(x) == x.w < 0

\* abs(x) for a float x
abs(x) == IF negative(x) THEN neg(x) ELSE x

\* divmod(a, b) of two ints, b > 0
divmod(a, b) == <<a \div b, a % b>>

(***************************************************************************)
(* datetime.timedelta.  A float argument is rounded to the nearest         *)
(* microsecond.  A value exactly half way between two microseconds is      *)
(* rounded by Python to the even one, but the binary float that stands for *)
(* the decimal value lies a little below or above the half, so the side it *)
(* falls on is not decided by the decimal value: tie (0 or 1) is the side. *)
(***************************************************************************)
round_ticks(t, tie) ==
    LET q == t \div 10
        r == t % 10
    IN  IF r < 5 THEN q
        ELSE IF r > 5 THEN q + 1
        ELSE q + tie

\* timedelta with the milliseconds argument dropped.
timedelta_without_milliseconds(days, hours, minutes, seconds, milliseconds, tie) ==
    LET carry == divmod(round_ticks(seconds.t, tie), MICROS_PER_SECOND)
        dm == divmod(days * SECONDS_PER_DAY + hours * 3600 + minutes * 60
                         + seconds.w + carry[1], SECONDS_PER_DAY)
    IN  [days |-> dm[1], seconds |-> dm[2], microseconds |-> carry[2]]

\* timedelta(days=, hours=, minutes=, seconds=, milliseconds=): days, hours,
\* minutes and milliseconds are ints, seconds is a float.
timedelta(days, hours, minutes, seconds, milliseconds, tie) ==
    LET us == milliseconds * 1000 + round_ticks(seconds.t, tie)
        carry == divmod(us, MICROS_PER_SECOND)
        s == days * SECONDS_PER_DAY + hours * 3600 + minutes * 60
                 + seconds.w + carry[1]
        dm == divmod(s, SECONDS_PER_DAY)
    IN  [days |-> dm[1], seconds |-> dm[2], microseconds |-> carry[2]]

\* timedelta.total_seconds(), a float
total_seconds_of(td) ==
    [w |-> td.days * SECONDS_PER_DAY + td.seconds, t |-> td.microseconds * 10]

(***************************************************************************)
(* Strings.                                                                *)
(***************************************************************************)
DIGITS == <<"0", "1", "2", "3", "4", "5", "6", "7", "8", "9">>

\* str(n) of an int n >= 0
RECURSIVE str(_)
str(n) ==
    IF n < 10 THEN <<DIGITS[n + 1]>>
    ELSE str(n \div 10) \o <<DIGITS[(n % 10) + 1]>>

\* s.rjust(width, fill)
RECURSIVE rjust(_, _, _)
rjust(s, width, fill) ==
    IF Len(s) >= width THEN s ELSE rjust(<<fill>> \o s, width, fill)

\* s.zfill(width) of a string without a sign
zfill(s, width) == rjust(s, width, "0")

\* s.rstrip(chars)
RECURSIVE rstrip(_, _)
rstrip(s, chars) ==
    IF Len(s) > 0 /\ s[Len(s)] \in chars
    THEN rstrip(SubSeq(s, 1, Len(s) - 1), chars)
    ELSE s

(***************************************************************************)
(* Outcomes of _args_to_seconds and to_string.                             *)
(***************************************************************************)
NoRet == [raised |-> "", message |-> <<>>, seconds |-> Whole(0), str |-> <<>>]

Raise(class, message) == [NoRet EXCEPT !.raised = class, !.message = message]

arity_message(n) ==
    <<"Cannot initialize a TimeSpan instance with ">> \o str(n) \o <<" arguments">>

\* The chain with a branch for two arguments.
legal_len_with_two(n) == n \in {1, 2, 3, 4, 5}

\* The argument counts the if/elif chain of _args_to_seconds takes.
legal_len(n) == n \in {1, 3, 4, 5}

\* _args_to_seconds(args, by_ticks=ticks).  Every argument is a Num; the
\* arguments other than seconds are whole in every call of the model.
_args_to_seconds(a, ticks, tie) ==
    LET n == Len(a)
        one == IF ticks
               THEN [w |-> a[1].w \div _TICKS_PER_SECOND,
                     t |-> a[1].w % _TICKS_PER_SECOND]
               ELSE a[1]
        days == IF n \in {4, 5} THEN a[1].w ELSE 0
        hours == IF n = 3 THEN a[1].w ELSE IF n \in {4, 5} THEN a[2].w ELSE 0
        minutes == IF n = 3 THEN a[2].w ELSE IF n \in {4, 5} THEN a[3].w ELSE 0
        seconds == IF n = 1 THEN one
                   ELSE IF n = 3 THEN a[3]
                   ELSE IF n \in {4, 5} THEN a[4]
                   ELSE Whole(0)
        milliseconds == IF n = 5 THEN a[5].w ELSE 0
    IN  IF ~legal_len(n) THEN Raise("ValueError", arity_message(n))
        ELSE [NoRet EXCEPT !.seconds =
                 total_seconds_of(
                     timedelta(days, hours, minutes, seconds, milliseconds, tie))]

\* The width 2 for every specifier.
hours_width_two(spec) == 2

\* The width str(h).zfill is given.
hours_width(spec) == IF spec = "g" THEN 1 ELSE 2

\* The decimal separator of the fraction.
fraction_separator(spec, separator) == IF spec = "c" THEN <<".">> ELSE separator

\* The fraction part without the rstrip of the g specifier.
fraction_part_untrimmed(spec, f, separator) ==
    IF f > 0 \/ spec = "G"
    THEN fraction_separator(spec, separator) \o rjust(str(f), 7, "0")
    ELSE <<>>

\* The fraction part: f is delta.microseconds * 10.
fraction_part(spec, f, separator) ==
    IF f > 0 \/ spec = "G"
    THEN LET full == fraction_separator(spec, separator) \o rjust(str(f), 7, "0")
         IN  IF spec = "g" THEN rstrip(full, {"0"}) ELSE full
    ELSE <<>>

\* The days part without the G specifier's case.
days_part_only_positive(spec, d) ==
    IF d > 0
    THEN str(d) \o (IF spec = "c" THEN <<".">> ELSE <<":">>)
    ELSE <<>>

\* The days part.
days_part(spec, d) ==
    IF d > 0 \/ spec = "G"
    THEN str(d) \o (IF spec = "c" THEN <<".">> ELSE <<":">>)
    ELSE <<>>

\* The sign taken from the magnitude.
sign_part_of_abs(seconds) == IF negative(abs(seconds)) THEN <<"-">> ELSE <<>>

\* The sign.
sign_part(seconds) == IF negative(seconds) THEN <<"-">> ELSE <<>>

\* Whether the assert statement of to_string raises.
assert_fails(spec, dbg) == dbg /\ spec \notin _FORMAT_SPECIFIERS

\* The string to_string builds from seconds, the float _args_to_seconds
\* returned, and delta, the timedelta of abs(seconds).
format(spec, seconds, td, separator) ==
    LET d == td.days
        hr == divmod(td.seconds, 3600)
        ms == divmod(hr[2], 60)
        f == td.microseconds * 10
        h == zfill(str(hr[1]), hours_width(spec))
        m == zfill(str(ms[1]), 2)
        s == zfill(str(ms[2]), 2)
    IN  sign_part(seconds) \o days_part(spec, d) \o h \o <<":">> \o m \o <<":">>
            \o s \o fraction_part(spec, f, separator)

\* to_string after its call of _args_to_seconds, whose outcome is r.
to_string_of(spec, r, separator, tie) ==
    IF r.raised # "" THEN r
    ELSE [r EXCEPT !.str =
             format(spec, r.seconds,
                    timedelta(0, 0, 0, abs(r.seconds), 0, tie), separator)]

\* to_string(specifier, *args)
to_string(spec, a, separator, dbg, tie) ==
    IF assert_fails(spec, dbg) THEN Raise("AssertionError", <<>>)
    ELSE to_string_of(spec, _args_to_seconds(a, FALSE, tie), separator, tie)

(***************************************************************************)
(* _PATTERN.  \d is modelled on the ASCII digits.  Every choice the regex  *)
(* engine can make is forced by the next character (a run of digits is     *)
(* followed by a separator it cannot match), so the one match, when there  *)
(* is one, is computed left to right.                                      *)
(***************************************************************************)
NoMatch ==
    [matched |-> FALSE, sign |-> <<>>, days |-> <<>>, hours |-> <<>>,
     minutes |-> <<>>, seconds |-> <<>>, fraction |-> <<>>]

digit(c) == c \in {DIGITS[i] : i \in 1..10}

digit_value(c) == CHOOSE n \in 0..9 : DIGITS[n + 1] = c

char_at(s, i, set) == i >= 1 /\ i <= Len(s) /\ s[i] \in set

\* The length of the longest run of digits of s that starts at i.
RECURSIVE digit_run(_, _)
digit_run(s, i) ==
    IF i <= Len(s) /\ digit(s[i]) THEN 1 + digit_run(s, i + 1) ELSE 0

\* `$` without re.MULTILINE: the end of the string, or just before a newline
\* that ends the string.
dollar(s, i) == i = Len(s) + 1 \/ (i = Len(s) /\ s[i] = "\n")

\* (?P<hours>\d{1,2}):(?P<minutes>\d{2}):(?P<seconds>\d{2})(?P<fraction>[.,]\d{1,7})?$
\* matched at position i of s, where nh digits start the hours, p is the
\* position after the seconds and nf digits follow position p.
match_fields(s, i, nh, p, nf) ==
    LET j == i + nh + 1             \* the first character of minutes
        k == j + 3                  \* the first character of seconds
        fields == /\ nh \in {1, 2}
                  /\ char_at(s, i + nh, {":"})
                  /\ digit_run(s, j) = 2
                  /\ char_at(s, j + 2, {":"})
                  /\ digit_run(s, k) >= 2
        with_fraction == /\ char_at(s, p, {".", ","})
                         /\ nf \in 1..7
                         /\ dollar(s, p + 1 + nf)
    IN  IF fields /\ (dollar(s, p) \/ with_fraction)
        THEN [NoMatch EXCEPT !.matched = TRUE,
                             !.hours = SubSeq(s, i, i + nh - 1),
                             !.minutes = SubSeq(s, j, j + 1),
                             !.seconds = SubSeq(s, k, k + 1),
                             !.fraction = IF dollar(s, p) THEN <<>>
                                          ELSE SubSeq(s, p, p + nf)]
        ELSE NoMatch

match_hours(s, i, nh) == match_fields(s, i, nh, i + nh + 6, digit_run(s, i + nh + 7))

match_time(s, i) == match_hours(s, i, digit_run(s, i))

\* The groups m with the group days (or sign) set, when m is a match.
with_group_days(m, days) == IF m.matched THEN [m EXCEPT !.days = days] ELSE m
with_group_sign(m, sign) == IF m.matched THEN [m EXCEPT !.sign = sign] ELSE m

\* (?P<days>\d+[:.])? and the rest, at position i of s where nd digits start:
\* the group is tried first, and left out when the rest does not match.
first_match(with_days, without_days) ==
    IF with_days.matched THEN with_days ELSE without_days

match_days(s, i, nd) ==
    first_match(
        IF nd >= 1 /\ char_at(s, i + nd, {":", "."})
        THEN with_group_days(match_time(s, i + nd + 1), SubSeq(s, i, i + nd))
        ELSE NoMatch,
        match_time(s, i))

match_sign(s, i) == match_days(s, i, digit_run(s, i))

\* _PATTERN.match(s): the groups, or NoMatch for None.
_PATTERN(s) ==
    IF char_at(s, 1, {"-"})
    THEN with_group_sign(match_sign(s, 2), <<"-">>)
    ELSE match_sign(s, 1)

\* int(s) of a string of digits
RECURSIVE int(_)
int(s) ==
    IF Len(s) = 0 THEN 0
    ELSE int(SubSeq(s, 1, Len(s) - 1)) * 10 + digit_value(s[Len(s)])

\* s.ljust(width, fill)
RECURSIVE ljust(_, _, _)
ljust(s, width, fill) ==
    IF Len(s) >= width THEN s ELSE ljust(s \o <<fill>>, width, fill)

\* float(s) of the fraction group, a separator and 1 to 7 digits: Python's
\* float reads "." as the decimal point and no other character.
float(s) ==
    IF s[1] = "."
    THEN [raised |-> "", value |-> [w |-> 0, t |-> int(ljust(Tail(s), 7, "0"))]]
    ELSE [raised |-> "ValueError", value |-> Whole(0)]

(***************************************************************************)
(* Outcomes of from_string and total_seconds.                              *)
(***************************************************************************)
NoDelta ==
    [raised |-> "", returned |-> FALSE,
     td |-> [days |-> 0, seconds |-> 0, microseconds |-> 0],
     seconds |-> Whole(0)]

\* from_string after _PATTERN.match(timespan_string) returned a match.
from_groups(groups, tie) ==
    LET sign == IF groups.sign = <<"-">> THEN -1 ELSE 1
        days == sign * int(rstrip(IF groups.days = <<>> THEN <<"0">> ELSE groups.days,
                                  {":", "."}))
        hours == sign * int(groups.hours)
        minutes == sign * int(groups.minutes)
        seconds == sign * int(groups.seconds)
        fl == IF groups.fraction = <<>>
              THEN [raised |-> "", value |-> Whole(0)]
              ELSE float(groups.fraction)
        fraction == IF sign = -1 THEN neg(fl.value) ELSE fl.value
        sum == [w |-> seconds + fraction.w, t |-> fraction.t]
    IN  IF fl.raised # "" THEN [NoDelta EXCEPT !.raised = fl.raised]
        ELSE [NoDelta EXCEPT !.returned = TRUE,
                             !.td = timedelta(days, hours, minutes, sum, 0, tie)]

\* from_string after _PATTERN.match(timespan_string) returned groups:
\* None has no groupdict.
from_match(groups, tie) ==
    IF ~groups.matched THEN [NoDelta EXCEPT !.raised = "AttributeError"]
    ELSE from_groups(groups, tie)

\* from_string(timespan_string)
from_string(timespan_string, tie) == from_match(_PATTERN(timespan_string), tie)

\* total_seconds after from_string returned d (or raised).
seconds_of(d) ==
    IF d.raised # "" THEN d ELSE [d EXCEPT !.seconds = total_seconds_of(d.td)]

\* total_seconds(timespan_string)
total_seconds(timespan_string, tie) == seconds_of(from_string(timespan_string, tie))

(***************************************************************************)
(* The calls the model makes.  The numbers given to to_string are          *)
(* durations of whole microseconds, the resolution the module documents    *)
(* ("Microsecond-level precision is guaranteed"); days, hours, minutes and *)
(* milliseconds are whole numbers.  Tick counts given with by_ticks=True   *)
(* and fractions of seven digits given to from_string are finer, and are   *)
(* rounded by timedelta.                                                   *)
(***************************************************************************)
\* Format specifiers: the three of _FORMAT_SPECIFIERS and two others.
Specifiers == {"c", "g", "G", "x", ""}

\* Values of the decimal separator: TIMESPAN_LOCALE or the locale's
\* decimal_point (en-US ".", fr-FR ",").
Separators == {<<".">>, <<",">>}

\* Whole seconds and microseconds of the one-argument form: up to 1,000,000 s.
WholeSeconds == {0, 1, 59, 60, 3599, 3600, 35999, 36000, 86399, 86400, 97010, 1000000}
Microseconds == {0, 1, 500000, 599000, 999990, 999999}

DayValues == (-1)..MaxDays
HourValues == {-1, 0, 3, 17, 23, 25}
MinuteValues == {0, 25, 59, 61}
SecondValues == {Whole(0), Whole(-61), Micro(30, 500000), Micro(59, 999999)}
MillisecondValues == {-1, 0, 500, 599, 1500}

Seconds1 ==
    LET pos == {Micro(w, us) : w \in WholeSeconds, us \in Microseconds}
    IN  pos \cup {neg(x) : x \in pos}

Args1 == {<<x>> : x \in Seconds1}
Args3 == {<<Whole(h), Whole(m), s>> :
              h \in HourValues, m \in MinuteValues, s \in SecondValues}
Args4 == {<<Whole(d), Whole(h), Whole(m), s>> :
              d \in DayValues, h \in {0, 17, 25}, m \in {0, 25}, s \in SecondValues}
Args5 == {<<Whole(d), Whole(h), Whole(m), Whole(s), Whole(ms)>> :
              d \in DayValues, h \in {-1, 3, 17}, m \in {16, 61}, s \in {30, 50},
              ms \in MillisecondValues}

\* Tuples of the lengths _args_to_seconds refuses.
ArgsOther ==
    {[i \in 1..n |-> Whole(i)] : n \in (0..MaxLen) \ {1, 3, 4, 5}}

Args == Args1 \cup Args3 \cup Args4 \cup Args5 \cup ArgsOther

\* Tick counts for by_ticks=True.
TickArgs == {<<Whole(n)>> : n \in {0, 4, 5, 6, 15, 100, 105, 12345678, -5, -100}}

\* Strings of the grammar, and the strings one edit away from them.
Alphabet == {"0", "7", "-", "+", ":", ".", ",", " ", "\n"}

GrammarStrings ==
    {sg \o dy \o hh \o <<":">> \o mm \o <<":">> \o ss \o fr :
        sg \in {<<>>, <<"-">>},
        dy \in {<<>>, <<"1", ":">>, <<"3", ".">>},
        hh \in {<<"3">>, <<"1", "8">>},
        mm \in {<<"3", "0">>},
        ss \in {<<"0", "0">>, <<"5", "9">>},
        fr \in {<<>>, <<".", "5">>, <<",", "5">>, <<".", "5", "9", "9">>,
                <<".", "0", "0", "0", "0", "0", "1", "5">>,
                <<",", "1", "2", "3", "4", "5", "6", "7">>}}

Edits(s) ==
    {s} \cup {<<c>> \o s : c \in Alphabet} \cup {s \o <<c>> : c \in Alphabet}
        \cup {SubSeq(s, 1, i - 1) \o SubSeq(s, i + 1, Len(s)) : i \in 1..Len(s)}

Texts == UNION {Edits(s) : s \in GrammarStrings}

(***************************************************************************)
(* The state machine: the module is imported (Init), then one function is  *)
(* called; after to_string has returned a string, from_string or           *)
(* total_seconds may be called on it, as tests/test.py does.               *)
(***************************************************************************)
Init ==
    /\ sep \in Separators
    /\ debug \in BOOLEAN
    /\ pc = "idle"
    /\ specifier = ""
    /\ args = <<>>
    /\ by_ticks = FALSE
    /\ ret = NoRet
    /\ text = <<>>
    /\ delta = NoDelta

CallArgsToSeconds ==
    /\ pc = "idle"
    /\ \E a \in Args \cup TickArgs, b \in BOOLEAN, tie \in {0, 1} :
        /\ b => a \in TickArgs
        /\ args' = a
        /\ by_ticks' = b
        /\ ret' = _args_to_seconds(a, b, tie)
    /\ pc' = "_args_to_seconds"
    /\ UNCHANGED <<sep, debug, specifier, text, delta>>

CallToString ==
    /\ pc = "idle"
    /\ \E sp \in Specifiers, a \in Args, tie \in {0, 1} :
        /\ specifier' = sp
        /\ args' = a
        /\ ret' = to_string(sp, a, sep, debug, tie)
    /\ pc' = "to_string"
    /\ UNCHANGED <<sep, debug, by_ticks, text, delta>>

\* The strings the next call of from_string or total_seconds is given.
Inputs == IF pc = "idle" THEN Texts ELSE {ret.str}

CallFromString ==
    /\ pc = "idle" \/ (pc = "to_string" /\ ret.raised = "")
    /\ \E s \in Inputs, tie \in {0, 1} :
        /\ text' = s
        /\ delta' = from_string(s, tie)
    /\ pc' = "from_string"
    /\ UNCHANGED <<sep, debug, specifier, args, by_ticks, ret>>

CallTotalSeconds ==
    /\ pc = "idle" \/ (pc = "to_string" /\ ret.raised = "")
    /\ \E s \in Inputs, tie \in {0, 1} :
        /\ text' = s
        /\ delta' = total_seconds(s, tie)
    /\ pc' = "total_seconds"
    /\ UNCHANGED <<sep, debug, specifier, args, by_ticks, ret>>

Next == CallArgsToSeconds \/ CallToString \/ CallFromString \/ CallTotalSeconds

Spec == Init /\ [][Next]_vars

(***************************************************************************)
(* Reading a duration string and an argument tuple, for the properties     *)
(* below: the fields of a string are found from its colons, and the total  *)
(* of a tuple is the sum the documentation gives.                          *)
(***************************************************************************)
Max(S) == CHOOSE x \in S : \A y \in S : y <= x

AllDigits(s) == \A i \in 1..Len(s) : digit(s[i])

RECURSIVE DigitSuffix(_)
DigitSuffix(s) ==
    IF Len(s) = 0 \/ ~digit(s[Len(s)]) THEN <<>>
    ELSE DigitSuffix(SubSeq(s, 1, Len(s) - 1)) \o <<s[Len(s)]>>

Colons(s) == {i \in 1..Len(s) : s[i] = ":"}
LastColon(s) == Max(Colons(s))
MinuteColon(s) == Max(Colons(s) \ {LastColon(s)})

Unsigned(s) == IF Len(s) > 0 /\ s[1] \in {"-", "+"} THEN Tail(s) ELSE s

SecondsField(s) == SubSeq(s, LastColon(s) + 1, LastColon(s) + 2)
FractionField(s) == SubSeq(s, LastColon(s) + 3, Len(s))
MinutesField(s) == SubSeq(s, MinuteColon(s) + 1, LastColon(s) - 1)
HoursField(s) == DigitSuffix(SubSeq(s, 1, MinuteColon(s) - 1))
DaysField(s) ==
    LET before == Unsigned(SubSeq(s, 1, MinuteColon(s) - 1))
    IN  SubSeq(before, 1, Len(before) - Len(HoursField(s)))

\* The number a string of digits denotes, read from the left.
RECURSIVE Decimal(_, _)
Decimal(s, acc) ==
    IF Len(s) = 0 THEN acc ELSE Decimal(Tail(s), acc * 10 + digit_value(Head(s)))

\* The ticks the digits of a fraction denote: 0.<digits> seconds.
RECURSIVE FractionTicks(_, _)
FractionTicks(digits, place) ==
    IF Len(digits) = 0 THEN 0
    ELSE digit_value(Head(digits)) * place + FractionTicks(Tail(digits), place \div 10)

\* The components of a tuple of 1, 3, 4 or 5 elements.
ArgDays(a) == IF Len(a) >= 4 THEN a[1].w ELSE 0
ArgHours(a) == IF Len(a) = 3 THEN a[1].w ELSE IF Len(a) >= 4 THEN a[2].w ELSE 0
ArgMinutes(a) == IF Len(a) = 3 THEN a[2].w ELSE IF Len(a) >= 4 THEN a[3].w ELSE 0
ArgSeconds(a) == IF Len(a) = 1 THEN a[1] ELSE IF Len(a) = 3 THEN a[3] ELSE a[4]
ArgMilliseconds(a) == IF Len(a) = 5 THEN a[5].w ELSE 0

\* d*86400 + h*3600 + m*60 + s + ms/1000 seconds, for a tuple whose seconds
\* are whole microseconds.
Total(a) ==
    LET us == (ArgSeconds(a).t \div 10) + ArgMilliseconds(a) * 1000
    IN  [w |-> ArgDays(a) * 86400 + ArgHours(a) * 3600 + ArgMinutes(a) * 60
                   + ArgSeconds(a).w + (us \div 1000000),
         t |-> (us % 1000000) * 10]

\* Every component is non-negative and within its field.
InRange(a) ==
    /\ ArgDays(a) >= 0
    /\ ArgHours(a) \in 0..23
    /\ ArgMinutes(a) \in 0..59
    /\ ArgSeconds(a).w \in 0..59
    /\ ArgMilliseconds(a) \in 0..999
    /\ ArgSeconds(a).t = 0 \/ ArgMilliseconds(a) = 0

Magnitude(a) == IF Total(a).w < 0 THEN neg(Total(a)) ELSE Total(a)

Positive(x) == x.w > 0 \/ (x.w = 0 /\ x.t > 0)

\* |x - y| < 1e-6 seconds
Close(x, y) ==
    LET dw == x.w - y.w
        dt == x.t - y.t
    IN  \/ dw = 0 /\ dt > -10 /\ dt < 10
        \/ dw = 1 /\ dt + 10000000 < 10
        \/ dw = -1 /\ dt - 10000000 > -10

\* to_string was called with one of the three variants and a legal tuple, and
\* returned.
Formatted ==
    /\ pc = "to_string"
    /\ specifier \in {"c", "g", "G"}
    /\ Len(args) \in {1, 3, 4, 5}
    /\ ret.raised = ""

Parsed == pc \in {"from_string", "total_seconds"}

\* from_string (or total_seconds) was called on the string to_string returned.
RoundTripped == Parsed /\ specifier \in {"c", "g", "G"} /\ ret.raised = "" /\ text = ret.str

(***************************************************************************)
(* The grammar of duration strings:                                        *)
(*   [-]? (DAYS [:.])? HOURS(1-2) ":" MINUTES(2) ":" SECONDS(2)            *)
(*        ([.,] FRACTION(1-7))?                                            *)
(* over the whole string, with a sign, nd digits of days, nh of hours and  *)
(* nf of fraction.                                                         *)
(***************************************************************************)
GrammarWith(s, a, nd, nh, nf) ==
    LET h0 == a + (IF nd = 0 THEN 0 ELSE nd + 1)    \* characters before the hours
        m0 == h0 + nh + 1                           \* before the minutes
        s0 == m0 + 3                                \* before the seconds
        f0 == s0 + 2                                \* before the fraction
    IN  /\ Len(s) = f0 + (IF nf = 0 THEN 0 ELSE nf + 1)
        /\ a = 1 => s[1] = "-"
        /\ nd > 0 => AllDigits(SubSeq(s, a + 1, a + nd)) /\ s[a + nd + 1] \in {":", "."}
        /\ AllDigits(SubSeq(s, h0 + 1, h0 + nh))
        /\ s[h0 + nh + 1] = ":"
        /\ AllDigits(SubSeq(s, m0 + 1, m0 + 2))
        /\ s[m0 + 3] = ":"
        /\ AllDigits(SubSeq(s, s0 + 1, s0 + 2))
        /\ nf > 0 => s[f0 + 1] \in {".", ","} /\ AllDigits(SubSeq(s, f0 + 2, f0 + 1 + nf))

Grammar(s) ==
    \E a \in {0, 1}, nd \in 0..Len(s), nh \in {1, 2}, nf \in 0..7 :
        GrammarWith(s, a, nd, nh, nf)

\* The string with the other decimal separator before its fraction.
OtherSeparator(s) ==
    [s EXCEPT ![LastColon(s) + 3] = IF @ = "." THEN "," ELSE "."]

(***************************************************************************)
(* Properties.                                                             *)
(***************************************************************************)

\* C1: Round trip.  For every variant and every duration t of whole
\* microseconds, from_string(to_string(v, t)) returns and its total seconds are
\* within 1e-6 of t, whatever decimal separator is configured.
RoundTrip ==
    RoundTripped /\ Len(args) = 1
        => delta.returned /\ Close(total_seconds_of(delta.td), args[1])

\* The round trip of every legal tuple when the fraction is written with ".":
\* the c specifier, or "." configured.
RoundTripWithPoint ==
    RoundTripped /\ Len(args) \in {1, 3, 4, 5} /\ (specifier = "c" \/ sep = <<".">>)
        => delta.returned /\ total_seconds_of(delta.td) = Total(args)

\* C2: from_string accepts exactly the strings of the grammar: a string of the
\* grammar yields a duration, every other string raises and yields none.
ParseAcceptsExactlyGrammar ==
    Parsed =>
        IF Grammar(text) THEN delta.returned /\ delta.raised = ""
        ELSE ~delta.returned /\ delta.raised # ""

\* C3: For a string of the grammar with a fraction, from_string returns a
\* duration whose sub-second part is 0.<digits> seconds, and returns the same
\* duration for the "." form and the "," form of the string.
FractionValue ==
    pc = "from_string" /\ Grammar(text) /\ FractionField(text) # <<>> =>
        /\ delta.returned
        /\ abs(total_seconds_of(delta.td)).t
               = FractionTicks(Tail(FractionField(text)), 1000000)
        /\ \E tie \in {0, 1} : from_string(OtherSeparator(text), tie) = delta

\* C4: _args_to_seconds, and to_string through it, returns a total for 1, 3, 4
\* and 5 arguments and raises no arity error; for every other count it raises
\* an error whose message names the count, and returns nothing.
ArityContract ==
    pc = "_args_to_seconds" \/ (pc = "to_string" /\ specifier \in {"c", "g", "G"}) =>
        IF Len(args) \in {1, 3, 4, 5}
        THEN ret.raised = "" /\ ret.message = <<>>
        ELSE /\ ret.raised = "ValueError"
             /\ Len(ret.message) = 3
             /\ ret.message[2] = DIGITS[Len(args) + 1]
             /\ ret.str = <<>>
             /\ ret.seconds = Whole(0)

ArityRefused ==
    pc = "to_string" /\ specifier = "g" /\ Len(args) = 2 /\ ret.raised = "ValueError"

\* C5: to_string with a specifier other than c, g and G is always rejected
\* with an error: it never returns a string.
InvalidVariantRejected ==
    pc = "to_string" /\ specifier \notin {"c", "g", "G"} =>
        ret.raised # "" /\ ret.str = <<>>

\* C6: Sign symmetry.  For t > 0, to_string(v, -t) is "-" followed by
\* to_string(v, t); to_string(v, 0) has no sign; no output starts with "+".
SignSymmetry ==
    Formatted =>
        /\ Head(ret.str) # "+"
        /\ Total(args) = Whole(0) => Head(ret.str) # "-"
        /\ Positive(Total(args)) =>
               /\ Head(ret.str) # "-"
               /\ \A tie \in {0, 1} :
                      to_string(specifier, [i \in 1..Len(args) |-> neg(args[i])],
                                sep, debug, tie).str = <<"-">> \o ret.str

SignSymmetryCase ==
    /\ Formatted
    /\ specifier = "g"
    /\ args = <<Micro(97010, 500000)>>
    /\ ret.str = <<"1", ":", "2", ":", "5", "6", ":", "5", "0">> \o sep \o <<"5">>

\* C7: Days segment.  c and g render no days segment when the whole-day count
\* of the magnitude is 0 and render it when the count is at least 1; G always
\* renders it; it ends in "." in c and in ":" in g and G.
DaysSegment ==
    Formatted =>
        LET count == Magnitude(args).w \div 86400
            segment == DaysField(ret.str)
        IN  IF count = 0 /\ specifier # "G" THEN segment = <<>>
            ELSE segment = str(count) \o (IF specifier = "c" THEN <<".">> ELSE <<":">>)

DaysSegmentCase ==
    /\ Formatted
    /\ specifier = "G"
    /\ args = <<Whole(17), Whole(25), Whole(0)>>
    /\ DaysField(ret.str) = <<"0", ":">>

\* C8: Fraction rendering.  G always emits a fraction of exactly 7 digits; c
\* emits one, of exactly 7 digits, only when the sub-second part is non-zero;
\* g emits one only when the sub-second part is non-zero, with at least one
\* digit and never ending in "0".
FractionRendering ==
    Formatted =>
        LET ticks == Magnitude(args).t
            f == FractionField(ret.str)
            seven == /\ Len(f) = 8
                     /\ f[1] = (IF specifier = "c" THEN "." ELSE sep[1])
                     /\ AllDigits(Tail(f))
        IN  /\ specifier = "G" => seven
            /\ specifier = "c" => IF ticks = 0 THEN f = <<>> ELSE seven
            /\ specifier = "g" =>
                   IF ticks = 0 THEN f = <<>>
                   ELSE /\ Len(f) >= 2
                        /\ f[1] = sep[1]
                        /\ AllDigits(Tail(f))
                        /\ f[Len(f)] # "0"

FractionRenderingCase ==
    /\ Formatted
    /\ specifier = "g"
    /\ Magnitude(args).t = 5000000
    /\ FractionField(ret.str) = sep \o <<"5">>

\* C9: Field widths.  Minutes and seconds are exactly 2 digits in every
\* variant; hours are exactly 2 digits in c and G; in g the hours are the hour
\* value without a leading zero.
FieldWidths ==
    Formatted =>
        LET hour == (Magnitude(args).w % 86400) \div 3600
            h == HoursField(ret.str)
        IN  /\ Len(MinutesField(ret.str)) = 2 /\ AllDigits(MinutesField(ret.str))
            /\ Len(SecondsField(ret.str)) = 2 /\ AllDigits(SecondsField(ret.str))
            /\ FractionField(ret.str) # <<>> => ~digit(Head(FractionField(ret.str)))
            /\ specifier \in {"c", "G"} => Len(h) = 2
            /\ specifier = "g" =>
                   /\ Len(h) = (IF hour < 10 THEN 1 ELSE 2)
                   /\ Decimal(h, 0) = hour

FieldWidthsCase ==
    /\ Formatted
    /\ specifier = "g"
    /\ (Magnitude(args).w % 86400) \div 3600 = 3
    /\ HoursField(ret.str) = <<"3">>

\* C10: Normalization and decomposition.  The total of a legal tuple is
\* d*86400 + h*3600 + m*60 + s + ms/1000 seconds; the fields to_string renders
\* are in range and sum to the magnitude of the total; the string is the one
\* of the total alone; in-range non-negative components render as themselves.
Normalization ==
    /\ pc \in {"_args_to_seconds", "to_string"} /\ ~by_ticks /\ ret.raised = ""
           /\ Len(args) \in {1, 3, 4, 5}
           => ret.seconds = Total(args)
    /\ Formatted =>
           LET str_ == ret.str
               days == IF DaysField(str_) = <<>> THEN 0
                       ELSE Decimal(SubSeq(DaysField(str_), 1, Len(DaysField(str_)) - 1), 0)
               hours == Decimal(HoursField(str_), 0)
               minutes == Decimal(MinutesField(str_), 0)
               seconds == Decimal(SecondsField(str_), 0)
               ticks == IF FractionField(str_) = <<>> THEN 0
                        ELSE FractionTicks(Tail(FractionField(str_)), 1000000)
           IN  /\ days >= 0
               /\ hours \in 0..23 /\ minutes \in 0..59 /\ seconds \in 0..59
               /\ ticks \in 0..9999999
               /\ days * 86400 + hours * 3600 + minutes * 60 + seconds
                      = Magnitude(args).w
               /\ ticks = Magnitude(args).t
               /\ \A tie \in {0, 1} :
                      to_string(specifier, <<Total(args)>>, sep, debug, tie).str = str_
               /\ InRange(args) =>
                      /\ days = ArgDays(args)
                      /\ hours = ArgHours(args)
                      /\ minutes = ArgMinutes(args)
                      /\ seconds = ArgSeconds(args).w
                      /\ ticks = ArgSeconds(args).t + ArgMilliseconds(args) * 10000

NormalizationCase ==
    /\ Formatted
    /\ specifier = "g"
    /\ args = <<Whole(0), Whole(-1), Whole(61), Whole(50), Whole(1500)>>
    /\ ret.str = <<"0", ":", "0", "1", ":", "5", "1">> \o sep \o <<"5">>

====
